---- MODULE Spec2Model ----
(***************************************************************************)
(* Model of the rule-based vital-sign classifier of                        *)
(* src/tools/health_insights.py (class HealthInsights).                    *)
(*                                                                         *)
(* Numbers.  The Python code works on floats.  The model represents a      *)
(* measurement by an integer count of fixed-point units:                   *)
(*   systolic, diastolic, heart_rate, weight : units of 1/Scale            *)
(*   temperature                             : units of 1/TempScale        *)
(*   height                                  : units of 1/HeightScale      *)
(* so that a value v stands for the number v/Scale, and a comparison       *)
(* "x < 120" of the code becomes "v < 120 * Scale".  Values between two    *)
(* whole numbers (129.5) are therefore inputs of the model.  Arithmetic is  *)
(* exact: the rounding of float operations is not represented, nor is a    *)
(* NaN passed as a measurement (a NaN cell of a DataFrame column is).      *)
(***************************************************************************)
EXTENDS Integers, Sequences, FiniteSets, TLC

VARIABLES
    op,      \* the operation called
    input,   \* its argument(s)
    pc,      \* "call" before the operation has run, "return" after
    result,  \* the value returned (<<>> before the return, and when it raised)
    exc,     \* "None", or the name of the error raised
    \* Concurrent callers of one HealthInsights object.
    calls,   \* caller -> [op, input, pc, result, exc] of its call
    frames,  \* storage cell -> the risk_factors list held in it
    passed,  \* caller -> the argument as it was when the call was made
    self,    \* the attributes of the HealthInsights object
    \* The web application of server.py.
    db,       \* the tables: [users, patients, doctors], a row's id its index
    session,  \* the id of the user the client is logged in as, 0 for none
    response, \* the last request handled and what was answered
    \* The model manager of tools/model_manager.py and the launcher.
    fs,                \* the file system: does cache_dir exist, and which
                       \* models' paths cache_dir / name exist
    downloaded_models, \* the attribute of the ModelManager object
    mcall,             \* the last call on the ModelManager and its outcome
    launch             \* a run of launcher.py: its arguments, position, outcome

hvars == <<op, input, pc, result, exc>>
cvars == <<calls, frames, passed, self>>
svars == <<db, session, response>>
mvars == <<fs, downloaded_models, mcall, launch>>
vars == <<hvars, cvars, svars, mvars>>

\* The variables of the other parts of the model, which a part leaves alone.
nonHealth == <<cvars, svars, mvars>>
nonConcurrent == <<hvars, svars, mvars>>
nonServer == <<hvars, cvars, mvars>>
nonModels == <<hvars, cvars, svars>>

\* The value of a part's variables in the behaviours of the other parts.
HealthIdle ==
    /\ op = "none"
    /\ input = <<>>
    /\ pc = "idle"
    /\ result = <<>>
    /\ exc = "None"

ConcurrentIdle ==
    /\ calls = <<>>
    /\ frames = <<>>
    /\ passed = <<>>
    /\ self = <<>>

ServerIdle ==
    /\ db = <<>>
    /\ session = 0
    /\ response = <<>>

ModelsIdle ==
    /\ fs = <<>>
    /\ downloaded_models = {}
    /\ mcall = <<>>
    /\ launch = <<>>

\* ---------------------------------------------------------------- bounds
\* Fixed-point resolution of systolic, diastolic, heart_rate and weight.
Scale == 2
\* Fixed-point resolution of temperature (tenths of a degree).
TempScale == 10
\* Fixed-point resolution of height (tenths of a metre).
HeightScale == 10
\* Largest systolic and diastolic value (whole mmHg) of the enumerated inputs.
MaxSys == 185
MaxDia == 125
\* Magnitude (whole units) of the most negative enumerated input.
MaxNeg == 1
\* Largest heart rate (whole beats/min) and temperature (whole degrees).
MaxHr == 105
MaxTemp == 40
\* Largest number of rows (snapshots) of an enumerated history.
MaxRows == 3
\* Largest height (whole metres) and weight (whole kg) of the enumerated inputs.
MaxHeight == 2
MaxWeight == 100
\* Number of concurrent callers of the classifier.
NumCallers == 2
\* Largest number of rows of the user table, and of notes in one history.
MaxUsers == 3
MaxNotes == 2

\* ------------------------------------------------------ blood pressure
\* Variant of the dict literal with the stage1 and stage2 items exchanged
\* (the more severe stage tested first).
categories_stage2_first(systolic, diastolic) ==
    << <<"normal",   systolic < 120 * Scale /\ diastolic < 80 * Scale>>,
       <<"elevated", /\ 120 * Scale <= systolic
                     /\ systolic <= 129 * Scale
                     /\ diastolic < 80 * Scale>>,
       <<"stage2",   systolic >= 140 * Scale \/ diastolic >= 90 * Scale>>,
       <<"stage1",   \/ (130 * Scale <= systolic /\ systolic <= 139 * Scale)
                     \/ (80 * Scale <= diastolic /\ diastolic <= 89 * Scale)>>,
       <<"crisis",   systolic > 180 * Scale \/ diastolic > 120 * Scale>> >>

\* The dict literal of _analyze_blood_pressure: its items in insertion
\* order, each a label with the truth value of its condition.
categories(systolic, diastolic) ==
    << <<"normal",   systolic < 120 * Scale /\ diastolic < 80 * Scale>>,
       <<"elevated", /\ 120 * Scale <= systolic
                     /\ systolic <= 129 * Scale
                     /\ diastolic < 80 * Scale>>,
       <<"stage1",   \/ (130 * Scale <= systolic /\ systolic <= 139 * Scale)
                     \/ (80 * Scale <= diastolic /\ diastolic <= 89 * Scale)>>,
       <<"stage2",   systolic >= 140 * Scale \/ diastolic >= 90 * Scale>>,
       <<"crisis",   systolic > 180 * Scale \/ diastolic > 120 * Scale>> >>

\* next((k for k, v in items if v), default): the key of the first item
\* whose value is true, or the default.
RECURSIVE next(_, _)
next(items, default) ==
    IF items = <<>> THEN default
    ELSE IF Head(items)[2] THEN Head(items)[1]
    ELSE next(Tail(items), default)

_analyze_blood_pressure(systolic, diastolic) ==
    LET category == next(categories(systolic, diastolic), "unknown")
    IN  [category        |-> category,
         systolic        |-> systolic,
         diastolic       |-> diastolic,
         needs_attention |-> category \in {"stage2", "crisis"}]

\* ---------------------------------------------- heart rate, temperature
\* Variant with the lower bound of the normal band exclusive.
_analyze_heart_rate_exclusive(heart_rate) ==
    [value           |-> heart_rate,
     category        |-> IF 60 * Scale < heart_rate /\ heart_rate <= 100 * Scale
                         THEN "normal" ELSE "abnormal",
     needs_attention |-> heart_rate < 60 * Scale \/ heart_rate > 100 * Scale]

_analyze_heart_rate(heart_rate) ==
    [value           |-> heart_rate,
     category        |-> IF 60 * Scale <= heart_rate /\ heart_rate <= 100 * Scale
                         THEN "normal" ELSE "abnormal",
     needs_attention |-> heart_rate < 60 * Scale \/ heart_rate > 100 * Scale]

\* The thresholds 36.1, 37.2 and 38.0 are 361/10, 372/10 and 380/10; a
\* temperature v stands for v/TempScale, so "36.1 <= temperature" is
\* 361 * TempScale <= 10 * v.
\* Variant whose needs_attention follows the category band.
_analyze_temperature_by_band(temperature) ==
    [value           |-> temperature,
     category        |-> IF /\ 361 * TempScale <= 10 * temperature
                            /\ 10 * temperature <= 372 * TempScale
                         THEN "normal" ELSE "abnormal",
     needs_attention |-> 10 * temperature > 372 * TempScale]

_analyze_temperature(temperature) ==
    [value           |-> temperature,
     category        |-> IF /\ 361 * TempScale <= 10 * temperature
                            /\ 10 * temperature <= 372 * TempScale
                         THEN "normal" ELSE "abnormal",
     needs_attention |-> 10 * temperature > 380 * TempScale]

\* ------------------------------------------------------------- trends
\* A DataFrame is modelled by its rows: a sequence of mappings from column
\* name to number.  A column holds NaN in the rows that lack it; a cell is
\* <<v>> for the number v and <<>> for NaN.
NumericColumns(df) == UNION {DOMAIN df[i] : i \in 1..Len(df)}

ColumnValues(df, column) ==
    [i \in 1..Len(df) |->
        IF column \in DOMAIN df[i] THEN <<df[i][column]>> ELSE <<>>]

\* len(df[column].dropna())
DropnaLen(df, column) ==
    Cardinality({i \in 1..Len(df) : ColumnValues(df, column)[i] # <<>>})

RECURSIVE Sum(_)
Sum(seq) == IF seq = <<>> THEN 0 ELSE Head(seq) + Sum(Tail(seq))

RECURSIVE Gcd(_, _)
Gcd(a, b) == IF b = 0 THEN a ELSE Gcd(b, a % b)

Abs(a) == IF a < 0 THEN 0 - a ELSE a

\* The number num/den (den > 0) as a fraction in lowest terms, <<p, q>>.
Rational(num, den) ==
    LET g == Gcd(Abs(num), den)
    IN  <<num \div g, den \div g>>

\* The float NaN as a slope value.
NaN == <<0, 0>>

\* np.polyfit(range(n), y, 1)[0] for y without NaN: the slope of the
\* least-squares line through the points (i, y[i+1]/Scale), i = 0..n-1,
\* from the normal equations, in exact arithmetic.
polyfit_slope(y) ==
    LET n  == Len(y)
        x  == [i \in 1..n |-> i - 1]
        Sx == Sum(x)
        Sy == Sum(y)
        Sxy == Sum([i \in 1..n |-> x[i] * y[i]])
        Sxx == Sum([i \in 1..n |-> x[i] * x[i]])
    IN  Rational(n * Sxy - Sx * Sy, (n * Sxx - Sx * Sx) * Scale)

\* Variant of the early-return test that lets a one-row frame through.
InsufficientData_empty_only(df) == Len(df) < 1

\* if len(df) < 2
InsufficientData(df) == Len(df) < 2

\* Variant of the trend label that counts a zero slope as increasing.
TrendLabel_zero_increasing(slope) ==
    IF slope[1] >= 0 /\ slope # NaN THEN "increasing" ELSE "decreasing"

\* "increasing" if slope > 0 else "decreasing"   (NaN > 0 is false)
TrendLabel(slope) ==
    IF slope[1] > 0 THEN "increasing" ELSE "decreasing"

\* The columns the loop of _calculate_trends makes an entry for.
TrendColumns(df) == {c \in NumericColumns(df) : DropnaLen(df, c) >= 2}

\* Those of them that hold a NaN, which polyfit is handed as it is.
NaNColumns(df) ==
    {c \in TrendColumns(df) : DropnaLen(df, c) < Len(df)}

\* The outcomes <<error raised, value returned>> of _calculate_trends(df).
\* With a NaN among the values the least-squares solver of the numpy build
\* either yields NaN coefficients or raises LinAlgError.
_calculate_trends(df) ==
    IF InsufficientData(df)
    THEN {<<"None", [error |-> "Insufficient data for trend analysis"]>>}
    ELSE LET slope(c) ==
                 IF c \in NaNColumns(df) THEN NaN
                 ELSE polyfit_slope([i \in 1..Len(df) |->
                                        ColumnValues(df, c)[i][1]])
             trends == [c \in TrendColumns(df) |->
                           [trend |-> TrendLabel(slope(c)),
                            slope |-> slope(c)]]
         IN  {<<"None", trends>>}
             \cup (IF NaNColumns(df) # {}
                   THEN {<<"LinAlgError", <<>> >>} ELSE {})

\* ------------------------------------------------------- risk factors
\* bmi = metrics['weight'] / (metrics['height'] ** 2), for height # 0: the
\* number (weight/Scale) / (height/HeightScale)^2 as a fraction <<p, q>>.
Bmi(metrics) ==
    Rational(metrics.weight * HeightScale * HeightScale,
             metrics.height * metrics.height * Scale)

\* Variant of the BMI test with the threshold exclusive.
BmiAtRisk_exclusive(bmi) == bmi[1] > 25 * bmi[2]

\* if bmi >= 25
BmiAtRisk(bmi) == bmi[1] >= 25 * bmi[2]

\* "overweight" if bmi < 30 else "obese"
BmiCategory(bmi) == IF bmi[1] < 30 * bmi[2] THEN "overweight" ELSE "obese"

\* "medium" if bmi < 30 else "high"
BmiPriority(bmi) == IF bmi[1] < 30 * bmi[2] THEN "medium" ELSE "high"

\* Variant of the blood-pressure test that leaves stage1 out.
BpAtRisk_no_stage1(bp_analysis) ==
    bp_analysis.category \in {"stage2", "crisis"}

\* if bp_analysis['category'] in ['stage1', 'stage2', 'crisis']
BpAtRisk(bp_analysis) ==
    bp_analysis.category \in {"stage1", "stage2", "crisis"}

\* "high" if bp_analysis['needs_attention'] else "medium"
BpPriority(bp_analysis) ==
    IF bp_analysis.needs_attention THEN "high" ELSE "medium"

\* f"{metrics['systolic']}/{metrics['diastolic']}": the two numbers, each
\* formatted, joined by a slash.
BpValue(metrics) ==
    [format |-> "{}/{}", args |-> <<metrics.systolic, metrics.diastolic>>]

\* The "Check BMI" block: the entries it appends.
BmiEntries(metrics) ==
    IF "height" \in DOMAIN metrics /\ "weight" \in DOMAIN metrics
    THEN LET bmi == Bmi(metrics)
         IN  IF BmiAtRisk(bmi)
             THEN << [factor   |-> "BMI",
                      value    |-> bmi,
                      category |-> BmiCategory(bmi),
                      priority |-> BmiPriority(bmi)] >>
             ELSE <<>>
    ELSE <<>>

\* The "Check blood pressure" block: the entries it appends.
BpEntries(metrics) ==
    IF "systolic" \in DOMAIN metrics /\ "diastolic" \in DOMAIN metrics
    THEN LET bp_analysis ==
                 _analyze_blood_pressure(metrics.systolic, metrics.diastolic)
         IN  IF BpAtRisk(bp_analysis)
             THEN << [factor   |-> "Blood Pressure",
                      value    |-> BpValue(metrics),
                      category |-> bp_analysis.category,
                      priority |-> BpPriority(bp_analysis)] >>
             ELSE <<>>
    ELSE <<>>

\* Variant that runs the blood-pressure block before the BMI block.
_identify_risk_factors_bp_first(metrics) ==
    IF /\ "height" \in DOMAIN metrics
       /\ "weight" \in DOMAIN metrics
       /\ metrics.height * metrics.height = 0
    THEN <<"ZeroDivisionError", <<>> >>
    ELSE <<"None", BpEntries(metrics) \o BmiEntries(metrics)>>

\* The outcome <<error raised, value returned>> of
\* _identify_risk_factors(metrics).  The division raises ZeroDivisionError
\* for a height of 0, before anything is appended.
_identify_risk_factors(metrics) ==
    IF /\ "height" \in DOMAIN metrics
       /\ "weight" \in DOMAIN metrics
       /\ metrics.height * metrics.height = 0
    THEN <<"ZeroDivisionError", <<>> >>
    ELSE <<"None", BmiEntries(metrics) \o BpEntries(metrics)>>

\* ------------------------------------------------ analyze_health_metrics
\* metrics.get(key, 0)
Get(metrics, key) == IF key \in DOMAIN metrics THEN metrics[key] ELSE 0

\* Variant of the frame with the snapshot entered twice.
SnapshotFrame_doubled(metrics) == <<metrics, metrics>>

\* df = pd.DataFrame([metrics]): a frame of one row.
SnapshotFrame(metrics) == <<metrics>>

\* The outcomes <<error raised, value returned>> of
\* analyze_health_metrics(metrics).  The items of the dict literal are
\* evaluated in order: the three vital signs, the trends, the risk factors;
\* an error raised by one of them leaves the call without a result.
analyze_health_metrics(metrics) ==
    LET df == SnapshotFrame(metrics)
        vital_signs ==
            [blood_pressure |-> _analyze_blood_pressure(
                                    Get(metrics, "systolic"),
                                    Get(metrics, "diastolic")),
             heart_rate     |-> _analyze_heart_rate(Get(metrics, "heart_rate")),
             temperature    |-> _analyze_temperature(Get(metrics, "temperature"))]
        risk == _identify_risk_factors(metrics)
        stats(trends) ==
            IF trends[1] # "None" THEN <<trends[1], <<>> >>
            ELSE IF risk[1] # "None" THEN <<risk[1], <<>> >>
            ELSE <<"None", [vital_signs  |-> vital_signs,
                            trends       |-> trends[2],
                            risk_factors |-> risk[2]]>>
    IN  {stats(trends) : trends \in _calculate_trends(df)}

\* ------------------------------------------------------------- inputs
SysValues == (0 - MaxNeg * Scale) .. (MaxSys * Scale)
DiaValues == (0 - MaxNeg * Scale) .. (MaxDia * Scale)
HrValues == (0 - MaxNeg * Scale) .. (MaxHr * Scale)
TempValues == (0 - MaxNeg * TempScale) .. (MaxTemp * TempScale)
Columns == {"heart_rate", "systolic"}
TrendValues == {60 * Scale, 70 * Scale, 80 * Scale}
Rows == UNION {[cs -> TrendValues] : cs \in SUBSET Columns}
Histories == UNION {[1..n -> Rows] : n \in 0..MaxRows}
HeightValues == 0 .. (MaxHeight * HeightScale)
WeightValues == {w * Scale : w \in 0..MaxWeight}
\* One reading for each outcome of the classification, by systolic and by
\* diastolic: normal, unknown (129.5), stage1, stage2, crisis range.
RiskSysValues ==
    {119 * Scale, 129 * Scale + Scale \div 2, 135 * Scale, 150 * Scale, 181 * Scale}
RiskDiaValues == {70 * Scale, 85 * Scale, 95 * Scale, 121 * Scale}
\* A present field <<v>> or an absent one <<>>, as an entry of a mapping.
Field(name, opt) == IF opt = <<>> THEN <<>> ELSE name :> opt[1]
Optional(S) == {<<>>} \cup {<<v>> : v \in S}
MetricsInputs ==
    {Field("height", h) @@ Field("weight", w)
        @@ Field("systolic", s) @@ Field("diastolic", d) :
        h \in Optional(HeightValues), w \in Optional(WeightValues),
        s \in Optional(RiskSysValues), d \in Optional(RiskDiaValues)}

\* Snapshots for analyze_health_metrics: each field absent or present, with
\* a reading of each blood-pressure outcome, a heart rate and a temperature
\* inside and outside the normal band, a height of 0 and of 1.7 m.
SnapshotInputs ==
    {Field("systolic", s) @@ Field("diastolic", d)
        @@ Field("heart_rate", hr) @@ Field("temperature", c)
        @@ Field("height", h) @@ Field("weight", w) :
        s \in Optional(RiskSysValues), d \in Optional(RiskDiaValues),
        hr \in Optional({50 * Scale, 80 * Scale}),
        c \in Optional({37 * TempScale, 39 * TempScale}),
        h \in Optional({0, (17 * HeightScale) \div 10}),
        w \in Optional({60 * Scale, 90 * Scale})}

\* ------------------------------------------------------------ actions
\* A behaviour is one call: Init draws the operation and its argument, the
\* operation's action computes the returned value (or the raised error).
BloodPressureInputs ==
    {<<systolic, diastolic>> : systolic \in SysValues, diastolic \in DiaValues}

Init ==
    /\ pc = "call"
    /\ result = <<>>
    /\ exc = "None"
    /\ \/ op = "_analyze_blood_pressure" /\ input \in BloodPressureInputs
       \/ op = "_analyze_heart_rate" /\ input \in HrValues
       \/ op = "_analyze_temperature" /\ input \in TempValues
       \/ op = "_calculate_trends" /\ input \in Histories
       \/ op = "_identify_risk_factors" /\ input \in MetricsInputs
       \/ op = "analyze_health_metrics" /\ input \in SnapshotInputs
    /\ ConcurrentIdle
    /\ ServerIdle
    /\ ModelsIdle

CallAnalyzeBloodPressure ==
    /\ pc = "call"
    /\ op = "_analyze_blood_pressure"
    /\ result' = _analyze_blood_pressure(input[1], input[2])
    /\ exc' = "None"
    /\ pc' = "return"
    /\ UNCHANGED <<op, input>>
    /\ UNCHANGED nonHealth

CallAnalyzeHeartRate ==
    /\ pc = "call"
    /\ op = "_analyze_heart_rate"
    /\ result' = _analyze_heart_rate(input)
    /\ exc' = "None"
    /\ pc' = "return"
    /\ UNCHANGED <<op, input>>
    /\ UNCHANGED nonHealth

CallAnalyzeTemperature ==
    /\ pc = "call"
    /\ op = "_analyze_temperature"
    /\ result' = _analyze_temperature(input)
    /\ exc' = "None"
    /\ pc' = "return"
    /\ UNCHANGED <<op, input>>
    /\ UNCHANGED nonHealth

CallCalculateTrends ==
    /\ pc = "call"
    /\ op = "_calculate_trends"
    /\ \E outcome \in _calculate_trends(input) :
           /\ exc' = outcome[1]
           /\ result' = outcome[2]
    /\ pc' = "return"
    /\ UNCHANGED <<op, input>>
    /\ UNCHANGED nonHealth

CallIdentifyRiskFactors ==
    /\ pc = "call"
    /\ op = "_identify_risk_factors"
    /\ exc' = _identify_risk_factors(input)[1]
    /\ result' = _identify_risk_factors(input)[2]
    /\ pc' = "return"
    /\ UNCHANGED <<op, input>>
    /\ UNCHANGED nonHealth

CallAnalyzeHealthMetrics ==
    /\ pc = "call"
    /\ op = "analyze_health_metrics"
    /\ \E outcome \in analyze_health_metrics(input) :
           /\ exc' = outcome[1]
           /\ result' = outcome[2]
    /\ pc' = "return"
    /\ UNCHANGED <<op, input>>
    /\ UNCHANGED nonHealth

Next ==
    \/ CallAnalyzeBloodPressure
    \/ CallAnalyzeHeartRate
    \/ CallAnalyzeTemperature
    \/ CallCalculateTrends
    \/ CallIdentifyRiskFactors
    \/ CallAnalyzeHealthMetrics

Spec == Init /\ [][Next]_vars

\* ------------------------------------------------- concurrent callers
\* Several callers invoke methods of one HealthInsights object at once.
\* A call of _identify_risk_factors runs statement by statement, the
\* statements of different calls interleaved; the _analyze_* methods
\* evaluate one expression over their parameters.
Callers == 1..NumCallers

\* __init__: the two attributes of the object, set once.
SelfInit == [nlp_model |-> "nlp_model", embedding_model |-> "embedding_model"]

\* Variant in which the list lives in one cell shared by every call (an
\* attribute of the object, or a mutable default).
Frame_shared(caller) == 1

\* risk_factors is a local variable: each call has a list of its own.
Frame(caller) == caller

ConcurrentCalls ==
    {<<"_identify_risk_factors", m>> : m \in
        {Field("height", h) @@ Field("weight", w)
            @@ Field("systolic", s) @@ Field("diastolic", d) :
            h \in Optional({0, (17 * HeightScale) \div 10}),
            w \in Optional({90 * Scale}),
            s \in Optional({150 * Scale}),
            d \in Optional({85 * Scale})}}
    \cup {<<"_analyze_blood_pressure", bp>> : bp \in
             {<<119 * Scale, 70 * Scale>>, <<181 * Scale, 85 * Scale>>}}
    \cup {<<"_analyze_heart_rate", hr>> : hr \in {50 * Scale, 80 * Scale}}
    \cup {<<"_analyze_temperature", c>> : c \in {37 * TempScale, 39 * TempScale}}

ConcurrentInit ==
    /\ \E chosen \in [Callers -> ConcurrentCalls] :
           /\ calls = [c \in Callers |->
                          [op |-> chosen[c][1], input |-> chosen[c][2],
                           pc |-> "call", result |-> <<>>, exc |-> "None"]]
           /\ passed = [c \in Callers |-> chosen[c][2]]
    /\ frames = [c \in Callers |-> <<>>]
    /\ self = SelfInit
    /\ HealthIdle
    /\ ServerIdle
    /\ ModelsIdle

Finish(caller, outcome) ==
    calls' = [calls EXCEPT ![caller].pc = "return",
                           ![caller].exc = outcome[1],
                           ![caller].result = outcome[2]]

\* One of the three _analyze_* methods, from call to return.
Analyze(caller) ==
    /\ calls[caller].pc = "call"
    /\ calls[caller].op # "_identify_risk_factors"
    /\ LET x == calls[caller].input
       IN  Finish(caller,
               <<"None",
                 CASE calls[caller].op = "_analyze_blood_pressure" ->
                          _analyze_blood_pressure(x[1], x[2])
                   [] calls[caller].op = "_analyze_heart_rate" ->
                          _analyze_heart_rate(x)
                   [] calls[caller].op = "_analyze_temperature" ->
                          _analyze_temperature(x)>>)
    /\ UNCHANGED <<frames, passed, self>>
    /\ UNCHANGED nonConcurrent

\* risk_factors = []
RiskEnter(caller) ==
    /\ calls[caller].pc = "call"
    /\ calls[caller].op = "_identify_risk_factors"
    /\ frames' = [frames EXCEPT ![Frame(caller)] = <<>>]
    /\ calls' = [calls EXCEPT ![caller].pc = "bmi"]
    /\ UNCHANGED <<passed, self>>
    /\ UNCHANGED nonConcurrent

\* The "Check BMI" block; the division raises for a height of 0.
RiskCheckBmi(caller) ==
    /\ calls[caller].pc = "bmi"
    /\ LET metrics == calls[caller].input
       IN  IF _identify_risk_factors(metrics)[1] # "None"
           THEN /\ Finish(caller, <<_identify_risk_factors(metrics)[1], <<>> >>)
                /\ UNCHANGED frames
           ELSE /\ frames' = [frames EXCEPT ![Frame(caller)] =
                                 @ \o BmiEntries(metrics)]
                /\ calls' = [calls EXCEPT ![caller].pc = "bp"]
    /\ UNCHANGED <<passed, self>>
    /\ UNCHANGED nonConcurrent

\* The "Check blood pressure" block.
RiskCheckBp(caller) ==
    /\ calls[caller].pc = "bp"
    /\ frames' = [frames EXCEPT ![Frame(caller)] =
                     @ \o BpEntries(calls[caller].input)]
    /\ calls' = [calls EXCEPT ![caller].pc = "ret"]
    /\ UNCHANGED <<passed, self>>
    /\ UNCHANGED nonConcurrent

\* return risk_factors
RiskReturn(caller) ==
    /\ calls[caller].pc = "ret"
    /\ Finish(caller, <<"None", frames[Frame(caller)]>>)
    /\ UNCHANGED <<frames, passed, self>>
    /\ UNCHANGED nonConcurrent

ConcurrentNext ==
    \/ \E caller \in Callers : Analyze(caller)
    \/ \E caller \in Callers : RiskEnter(caller)
    \/ \E caller \in Callers : RiskCheckBmi(caller)
    \/ \E caller \in Callers : RiskCheckBp(caller)
    \/ \E caller \in Callers : RiskReturn(caller)

SpecConcurrent == ConcurrentInit /\ [][ConcurrentNext]_vars

\* ---------------------------------------------------- web application
\* The Flask routes of server.py over the SQLAlchemy tables, requests
\* handled one at a time for one client.  The application has no route
\* that creates Patient or Doctor rows; the database file it opens holds a
\* patient and a doctor entered beforehand, each with a user account.
Usernames == {"pat", "doc", "eve"}
Emails == {"pat@example.com", "doc@example.com", "eve@example.com"}
Passwords == {"pw", "other"}
\* request.form['role'] is whatever the client sends.
RoleValues == {"patient", "doctor", "admin"}
\* request.form.get('note'): <<>> when the field is absent, else <<text>>.
NoteValues == {<<>>, <<"">>, <<"rest">>}

SeededDb ==
    [users    |-> << [username |-> "pat", email |-> "pat@example.com",
                      password |-> "pw", role |-> "patient"],
                     [username |-> "doc", email |-> "doc@example.com",
                      password |-> "pw", role |-> "doctor"] >>,
     patients |-> << [user_id |-> 1, name |-> "Pat", medical_history |-> <<>>] >>,
     doctors  |-> << [user_id |-> 2, name |-> "Doc"] >>]

ServerInit ==
    /\ db = SeededDb
    /\ session = 0
    /\ response = [route |-> "none", status |-> "none"]
    /\ HealthIdle
    /\ ConcurrentIdle
    /\ ModelsIdle

\* Query.first(): the id of the first of the rows ids, 0 for None.
First(ids) ==
    IF ids = {} THEN 0 ELSE CHOOSE i \in ids : \A j \in ids : i <= j

\* User.query.filter_by(username=...).first()
UserNamed(username) ==
    First({i \in 1..Len(db.users) : db.users[i].username = username})

\* Doctor.query.filter_by(user_id=...).first()
DoctorOf(user_id) ==
    First({i \in 1..Len(db.doctors) : db.doctors[i].user_id = user_id})

\* current_user.role of an authenticated client.
CurrentRole == db.users[session].role

\* role=request.form['role']
StoredRole(role) == role

\* POST /register.  username and email are unique columns: the commit of
\* a duplicate raises IntegrityError and stores nothing.
Register(username, email, password, role) ==
    /\ Len(db.users) < MaxUsers
    /\ IF \E i \in 1..Len(db.users) :
             db.users[i].username = username \/ db.users[i].email = email
       THEN /\ response' = [route |-> "register", status |-> "IntegrityError"]
            /\ UNCHANGED db
       ELSE /\ db' = [db EXCEPT !.users =
                         Append(@, [username |-> username, email |-> email,
                                    password |-> password,
                                    role |-> StoredRole(role)])]
            /\ response' = [route |-> "register", status |-> "redirect:login"]
    /\ UNCHANGED session
    /\ UNCHANGED nonServer

\* POST /login
Login(username, password) ==
    /\ LET user == UserNamed(username)
       IN  IF user # 0 /\ db.users[user].password = password
           THEN /\ session' = user
                /\ response' = [route |-> "login", status |-> "redirect:dashboard"]
           ELSE /\ response' = [route |-> "login", status |-> "login.html"]
                /\ UNCHANGED session
    /\ UNCHANGED db
    /\ UNCHANGED nonServer

\* @login_required for an anonymous client: redirect to the login view.
Anonymous(route) ==
    /\ session = 0
    /\ response' = [route |-> route, status |-> "redirect:login"]
    /\ UNCHANGED <<db, session>>

\* GET /logout
Logout ==
    /\ \/ Anonymous("logout")
       \/ /\ session # 0
          /\ session' = 0
          /\ response' = [route |-> "logout", status |-> "redirect:login"]
          /\ UNCHANGED db
    /\ UNCHANGED nonServer

\* GET /dashboard
Dashboard ==
    /\ \/ Anonymous("dashboard")
       \/ /\ session # 0
          /\ response' =
                 [route |-> "dashboard",
                  status |-> IF CurrentRole = "patient"
                             THEN "patient_dashboard.html"
                             ELSE "doctor_dashboard.html"]
          /\ UNCHANGED <<db, session>>
    /\ UNCHANGED nonServer

\* GET /medical_history
MedicalHistory ==
    /\ \/ Anonymous("medical_history")
       \/ /\ session # 0
          /\ response' =
                 [route |-> "medical_history",
                  status |-> IF CurrentRole # "patient"
                             THEN "redirect:dashboard"
                             ELSE "medical_history.html"]
          /\ UNCHANGED <<db, session>>
    /\ UNCHANGED nonServer

\* Variant of the test of the note that accepts an empty string.
NoteGiven_not_none(note) == note # <<>>

\* if note:
NoteGiven(note) == note # <<>> /\ note[1] # ""

\* POST /add_medical_note/<patient_id>.  A note is entered in front of the
\* history (its timestamp is not modelled).  A doctor account without a
\* Doctor row fails at doctor.name, before the history is touched.
AddMedicalNote(patient_id, note) ==
    /\ \/ Anonymous("add_medical_note")
       \/ /\ session # 0
          /\ UNCHANGED session
          /\ IF CurrentRole # "doctor"
             THEN /\ response' = [route |-> "add_medical_note", note |-> note,
                                  status |-> "redirect:dashboard"]
                  /\ UNCHANGED db
             ELSE IF patient_id \notin 1..Len(db.patients)
             THEN /\ response' = [route |-> "add_medical_note", note |-> note,
                                  status |-> "404"]
                  /\ UNCHANGED db
             ELSE IF ~NoteGiven(note)
             THEN /\ response' = [route |-> "add_medical_note", note |-> note,
                                  status |-> "redirect:medical_history"]
                  /\ UNCHANGED db
             ELSE LET doctor == DoctorOf(session)
                  IN  IF doctor = 0
                      THEN /\ response' = [route |-> "add_medical_note",
                                           note |-> note,
                                           status |-> "AttributeError"]
                           /\ UNCHANGED db
                      ELSE /\ Len(db.patients[patient_id].medical_history) < MaxNotes
                           /\ db' = [db EXCEPT
                                  !.patients[patient_id].medical_history =
                                      <<[doctor |-> db.doctors[doctor].name,
                                         note |-> note[1]]>> \o @]
                           /\ response' = [route |-> "add_medical_note",
                                           note |-> note,
                                           status |-> "redirect:medical_history"]
    /\ UNCHANGED nonServer

ServerNext ==
    \/ \E username \in Usernames, email \in Emails,
          password \in Passwords, role \in RoleValues :
           Register(username, email, password, role)
    \/ \E username \in Usernames, password \in Passwords :
           Login(username, password)
    \/ Logout
    \/ Dashboard
    \/ MedicalHistory
    \/ \E patient_id \in 1..2, note \in NoteValues :
           AddMedicalNote(patient_id, note)

SpecServer == ServerInit /\ [][ServerNext]_vars

\* ------------------------------------------------------ model manager
\* ModelManager of tools/model_manager.py over the file system.  The
\* transformers and sentence_transformers libraries are outside the
\* program: a download attempt succeeds or raises, and the files it wrote
\* are or are not found under cache_dir / name, as the library and the
\* environment decide.

\* MODELS, in the order of the dict.
ModelOrder == <<"medical_nlp", "vision", "medical_bert">>
ModelIds == {ModelOrder[i] : i \in 1..Len(ModelOrder)}
\* info['required'] is True for every entry.
Required == ModelIds

\* A model_id argument: <<>> for None, else <<string>>.
ModelIdArgs == {<<>>, <<"">>, <<"bogus">>} \cup {<<m>> : m \in ModelIds}

\* What one download attempt does: ok, the library calls returned; stored,
\* the path cache_dir / name exists afterwards.
DownloadOutcomes == [ok : BOOLEAN, stored : BOOLEAN]

FileSystems ==
    {f \in [cache_dir : BOOLEAN, paths : SUBSET ModelIds] :
         f.paths # {} => f.cache_dir}

\* _check_downloaded_models: the ids whose path exists.
_check_downloaded_models(f) == {m \in ModelIds : m \in f.paths}

\* The file system after a download attempt.
Store(f, model_id, outcome) ==
    IF outcome.stored
    THEN [cache_dir |-> TRUE, paths |-> f.paths \cup {model_id}]
    ELSE f

\* Variant that records the model whether or not the download raised.
MarkDownloaded_always(dm, model_id, ok) == dm \cup {model_id}

\* try: ...; self.downloaded_models.add(model_id); except Exception: print
MarkDownloaded(dm, model_id, ok) == IF ok THEN dm \cup {model_id} ELSE dm

\* download_model(model_id) from file system f and attribute dm.
download_model(f, dm, model_id, outcome) ==
    IF model_id \notin ModelIds
    THEN [exc |-> "ValueError", fs |-> f, downloaded_models |-> dm]
    ELSE [exc |-> "None", fs |-> Store(f, model_id, outcome),
          downloaded_models |-> MarkDownloaded(dm, model_id, outcome.ok)]

\* download_all_required: the loop from position i of MODELS; attempts
\* gives the outcome of the attempt for each model tried.
RECURSIVE DownloadFrom(_, _, _, _)
DownloadFrom(i, f, dm, attempts) ==
    IF i > Len(ModelOrder)
    THEN [exc |-> "None", fs |-> f, downloaded_models |-> dm]
    ELSE LET model_id == ModelOrder[i]
         IN  IF model_id \in Required /\ model_id \notin dm
             THEN LET r == download_model(f, dm, model_id, attempts[model_id])
                  IN  DownloadFrom(i + 1, r.fs, r.downloaded_models, attempts)
             ELSE DownloadFrom(i + 1, f, dm, attempts)

download_all_required(f, dm, attempts) == DownloadFrom(1, f, dm, attempts)

\* The models download_all_required tries from attribute dm.
Attempted(dm) == {m \in Required : m \notin dm}

\* clear_cache(model_id): one model's path, or with a falsy argument (None
\* or '') the whole cache_dir.  set.remove raises KeyError for a missing
\* element, shutil.rmtree FileNotFoundError for a missing directory.
clear_cache(f, dm, arg) ==
    IF arg # <<>> /\ arg[1] # ""
    THEN LET model_id == arg[1]
         IN  IF model_id \notin ModelIds
             THEN [exc |-> "ValueError", fs |-> f, downloaded_models |-> dm]
             ELSE IF model_id \in f.paths
             THEN LET g == [f EXCEPT !.paths = @ \ {model_id}]
                  IN  IF model_id \in dm
                      THEN [exc |-> "None", fs |-> g,
                            downloaded_models |-> dm \ {model_id}]
                      ELSE [exc |-> "KeyError", fs |-> g,
                            downloaded_models |-> dm]
             ELSE [exc |-> "None", fs |-> f, downloaded_models |-> dm]
    ELSE IF f.cache_dir
         THEN [exc |-> "None", fs |-> [cache_dir |-> FALSE, paths |-> {}],
               downloaded_models |-> {}]
         ELSE [exc |-> "FileNotFoundError", fs |-> f, downloaded_models |-> dm]

\* get_storage_info()['missing_required'], a list in the order of MODELS.
missing_required(dm) ==
    SelectSeq(ModelOrder, LAMBDA m : m \in Required /\ m \notin dm)

\* The state before a call, kept with its outcome.
Prior == [fs |-> fs, downloaded_models |-> downloaded_models]

ModelsInit ==
    /\ fs \in FileSystems
    /\ downloaded_models = _check_downloaded_models(fs)
    /\ mcall = [op |-> "__init__", arg |-> <<>>, exc |-> "None"]
    /\ launch = <<>>
    /\ HealthIdle
    /\ ConcurrentIdle
    /\ ServerIdle

\* Apply outcome r of a call.
Outcome(r) ==
    /\ fs' = r.fs
    /\ downloaded_models' = r.downloaded_models
    /\ UNCHANGED launch
    /\ UNCHANGED nonModels

\* ModelManager(): a new object over the same file system.
Construct ==
    /\ downloaded_models' = _check_downloaded_models(fs)
    /\ mcall' = [op |-> "__init__", arg |-> <<>>, exc |-> "None"]
    /\ UNCHANGED <<fs, launch>>
    /\ UNCHANGED nonModels

DownloadModel(model_id, outcome) ==
    LET r == download_model(fs, downloaded_models, model_id, outcome)
    IN  /\ mcall' = [op |-> "download_model", arg |-> <<model_id>>,
                     exc |-> r.exc, prior |-> Prior,
                     attempts |-> IF model_id \in ModelIds
                                  THEN (model_id :> outcome) ELSE <<>>]
        /\ Outcome(r)

DownloadAllRequired(attempts) ==
    LET r == download_all_required(fs, downloaded_models, attempts)
    IN  /\ mcall' = [op |-> "download_all_required", arg |-> <<>>,
                     exc |-> r.exc, prior |-> Prior,
                     attempts |-> [m \in Attempted(downloaded_models)
                                       |-> attempts[m]]]
        /\ Outcome(r)

ClearCache(arg) ==
    LET r == clear_cache(fs, downloaded_models, arg)
    IN  /\ mcall' = [op |-> "clear_cache", arg |-> arg,
                     exc |-> r.exc, prior |-> Prior]
        /\ Outcome(r)

GetStorageInfo ==
    /\ mcall' = [op |-> "get_storage_info", arg |-> <<>>, exc |-> "None",
                 prior |-> Prior,
                 missing_required |-> missing_required(downloaded_models)]
    /\ UNCHANGED <<fs, downloaded_models, launch>>
    /\ UNCHANGED nonModels

ModelsNext ==
    \/ Construct
    \/ \E model_id \in ModelIds \cup {"bogus"}, outcome \in DownloadOutcomes :
           DownloadModel(model_id, outcome)
    \/ \E attempts \in [ModelIds -> DownloadOutcomes] :
           DownloadAllRequired(attempts)
    \/ \E arg \in ModelIdArgs : ClearCache(arg)
    \/ GetStorageInfo

SpecModels == ModelsInit /\ [][ModelsNext]_vars

\* ------------------------------------------------------------ launcher
\* One run of launcher.py: the argument parser, then start_server.  The
\* resource files are present and the tools load; downloaded_models is
\* the attribute of the ModelManager the run made last.

\* The tokens of --clear-cache on the command line: none, the flag alone,
\* or the flag and its MODEL_ID.
ClearCacheArgv ==
    {<<>>, <<"--clear-cache">>}
        \cup {<<"--clear-cache", v>> : v \in {"", "bogus"} \cup ModelIds}

Argv ==
    [download_models : BOOLEAN, manage_models : BOOLEAN,
     clear_cache : ClearCacheArgv, model_info : BOOLEAN]

LauncherInit ==
    /\ fs \in FileSystems
    /\ downloaded_models = {}
    /\ mcall = <<>>
    /\ \E argv \in Argv :
           launch = [argv |-> argv, pc |-> "parse_args", clear_cache |-> <<>>,
                     outcome |-> "running", serving |-> FALSE]
    /\ HealthIdle
    /\ ConcurrentIdle
    /\ ServerIdle

\* parser.parse_args(): --clear-cache takes exactly one argument
\* (type=str, no nargs); without it the parser prints the usage and exits
\* with status 2.  args.clear_cache is None (<<>>) when the flag is absent.
ParseArgs ==
    /\ launch.pc = "parse_args"
    /\ IF Len(launch.argv.clear_cache) = 1
       THEN launch' = [launch EXCEPT !.pc = "exit", !.outcome = "SystemExit(2)"]
       ELSE launch' = [launch EXCEPT !.pc = "initialize_models",
                           !.clear_cache = SubSeq(launch.argv.clear_cache, 2,
                                              Len(launch.argv.clear_cache))]
    /\ UNCHANGED <<fs, downloaded_models, mcall>>
    /\ UNCHANGED nonModels

\* initialize_models(args.download_models)
InitializeModels ==
    /\ launch.pc = "initialize_models"
    /\ LET dm == _check_downloaded_models(fs)
       IN  IF missing_required(dm) # <<>> /\ launch.argv.download_models
           THEN \E attempts \in [ModelIds -> DownloadOutcomes] :
                    LET r == download_all_required(fs, dm, attempts)
                    IN  /\ fs' = r.fs
                        /\ downloaded_models' = r.downloaded_models
           ELSE /\ downloaded_models' = dm
                /\ UNCHANGED fs
    /\ launch' = [launch EXCEPT !.pc = "manage_models"]
    /\ UNCHANGED mcall
    /\ UNCHANGED nonModels

\* if args.manage_models: manager = ModelManager() and the two branches
\* that return.
ManageModels ==
    /\ launch.pc = "manage_models"
    /\ launch.argv.manage_models
    /\ LET dm == _check_downloaded_models(fs)
           arg == launch.clear_cache
       IN  IF arg # <<>> /\ arg[1] # ""
           THEN LET r == clear_cache(fs, dm, arg)
                IN  /\ fs' = r.fs
                    /\ downloaded_models' = r.downloaded_models
                    /\ launch' = [launch EXCEPT !.pc = "exit", !.outcome =
                           IF r.exc = "None" THEN "returned" ELSE r.exc]
           ELSE /\ downloaded_models' = dm
                /\ UNCHANGED fs
                /\ IF launch.argv.model_info
                   THEN launch' = [launch EXCEPT !.pc = "exit",
                                                 !.outcome = "returned"]
                   ELSE launch' = [launch EXCEPT !.pc = "run"]
    /\ UNCHANGED mcall
    /\ UNCHANGED nonModels

\* Without --manage-models start_server goes on to the servers.
SkipManageModels ==
    /\ launch.pc = "manage_models"
    /\ ~launch.argv.manage_models
    /\ launch' = [launch EXCEPT !.pc = "run"]
    /\ UNCHANGED <<fs, downloaded_models, mcall>>
    /\ UNCHANGED nonModels

\* app.run(debug=True, port=5000): the Flask server serves until stopped.
RunServer ==
    /\ launch.pc = "run"
    /\ launch' = [launch EXCEPT !.pc = "exit", !.outcome = "serving",
                                !.serving = TRUE]
    /\ UNCHANGED <<fs, downloaded_models, mcall>>
    /\ UNCHANGED nonModels

LauncherNext ==
    \/ ParseArgs
    \/ InitializeModels
    \/ ManageModels
    \/ SkipManageModels
    \/ RunServer

SpecLauncher == LauncherInit /\ [][LauncherNext]_vars

\* ------------------------------------------------------------- claims
Returned(name) == pc = "return" /\ op = name /\ exc = "None"

\* The rule table of the blood-pressure classification read as a cascade:
\* the label of the first row, top to bottom, whose condition holds.
\* s and d are in units of 1/Scale.
FirstRow(s, d) ==
    IF s < 120 * Scale /\ d < 80 * Scale THEN "normal"
    ELSE IF 120 * Scale <= s /\ s <= 129 * Scale /\ d < 80 * Scale THEN "elevated"
    ELSE IF (130 * Scale <= s /\ s <= 139 * Scale)
            \/ (80 * Scale <= d /\ d <= 89 * Scale) THEN "stage1"
    ELSE IF s >= 140 * Scale \/ d >= 90 * Scale THEN "stage2"
    ELSE IF s > 180 * Scale \/ d > 120 * Scale THEN "crisis"
    ELSE "unknown"

\* C1: _analyze_blood_pressure returns the first label, in the order normal,
\* elevated, stage1, stage2, crisis, whose condition holds, or "unknown";
\* it echoes both inputs; needs_attention is true exactly for stage2 and
\* crisis; every reading with s < 120 and d < 80 is normal, not flagged.
C1_FirstMatch ==
    Returned("_analyze_blood_pressure") =>
        /\ result.category = FirstRow(input[1], input[2])
        /\ result.systolic = input[1]
        /\ result.diastolic = input[2]
        /\ result.needs_attention = (result.category \in {"stage2", "crisis"})
        /\ (input[1] < 120 * Scale /\ input[2] < 80 * Scale) =>
               (result.category = "normal" /\ ~result.needs_attention)

\* A reading that satisfies both stage1's and stage2's condition has been
\* classified (first match: stage1).
C1_Witness ==
    /\ Returned("_analyze_blood_pressure")
    /\ input = <<150 * Scale, 85 * Scale>>
    /\ result.category = "stage1"
    /\ ~result.needs_attention

\* C2: every reading with systolic > 180 or diastolic > 120 is reported
\* with category stage2 and needs_attention true.
C2_CrisisRangeIsStage2 ==
    (/\ Returned("_analyze_blood_pressure")
     /\ (input[1] > 180 * Scale \/ input[2] > 120 * Scale)) =>
        (result.category = "stage2" /\ result.needs_attention)

\* C3: some (systolic, diastolic) input makes _analyze_blood_pressure
\* return category crisis.
C3_CrisisReachable ==
    Returned("_analyze_blood_pressure") =>
        \E bp \in BloodPressureInputs :
            _analyze_blood_pressure(bp[1], bp[2]).category = "crisis"

\* What holds instead: no call returns category crisis.
NeverCrisis ==
    Returned("_analyze_blood_pressure") => result.category # "crisis"

\* C4: for every systolic >= 0 and diastolic >= 0, whole or fractional,
\* _analyze_blood_pressure never returns category unknown.
C4_NeverUnknown ==
    (/\ Returned("_analyze_blood_pressure")
     /\ input[1] >= 0
     /\ input[2] >= 0) =>
        result.category # "unknown"

\* C5: _analyze_heart_rate returns normal iff 60 <= bpm <= 100 and abnormal
\* otherwise (zero and negative values included), and needs_attention is
\* true exactly when the category is abnormal.
C5_HeartRateBand ==
    Returned("_analyze_heart_rate") =>
        /\ result.category \in {"normal", "abnormal"}
        /\ (result.category = "normal") =
               (60 * Scale <= input /\ input <= 100 * Scale)
        /\ result.needs_attention = (result.category = "abnormal")
        /\ result.value = input

\* A negative heart rate has been classified, not rejected.
C5_Witness ==
    /\ Returned("_analyze_heart_rate")
    /\ input < 0
    /\ result.category = "abnormal"
    /\ result.needs_attention

\* C6: _analyze_temperature returns normal iff 36.1 <= c <= 37.2 and
\* abnormal otherwise; needs_attention is true iff c > 38.0, which implies
\* abnormal, while every c with 37.2 < c <= 38.0 and every c < 36.1 is
\* abnormal with needs_attention false.
C6_TemperatureBand ==
    Returned("_analyze_temperature") =>
        LET c10 == 10 * input
            t361 == 361 * TempScale
            t372 == 372 * TempScale
            t380 == 380 * TempScale
        IN  /\ result.category \in {"normal", "abnormal"}
            /\ (result.category = "normal") = (t361 <= c10 /\ c10 <= t372)
            /\ result.needs_attention = (c10 > t380)
            /\ result.needs_attention => result.category = "abnormal"
            /\ ((t372 < c10 /\ c10 <= t380) \/ c10 < t361) =>
                   (result.category = "abnormal" /\ ~result.needs_attention)

\* 37.5 degrees has been classified: abnormal, not flagged.
C6_Witness ==
    /\ Returned("_analyze_temperature")
    /\ 10 * input = 375 * TempScale
    /\ result.category = "abnormal"
    /\ ~result.needs_attention

\* Whether the column is a number in every row of the history.
Complete(df, column) == \A i \in 1..Len(df) : column \in DOMAIN df[i]

\* SUM over i < j of (j - i) * (y_j - y_i): n times the covariance sum of
\* the values with their positions, n*SUM(i*y_i) - SUM(i)*SUM(y_i).
PairSum(df, column) ==
    LET n == Len(df)
        pairs == {p \in (1..n) \X (1..n) : p[1] < p[2]}
        term(p) == (p[2] - p[1]) * (df[p[2]][column] - df[p[1]][column])
        RECURSIVE Add(_)
        Add(S) == IF S = {} THEN 0
                  ELSE LET p == CHOOSE q \in S : TRUE
                       IN  term(p) + Add(S \ {p})
    IN  Add(pairs)

\* The normal equation of the slope p/q (per unit of 1/Scale) of the line
\* fitted to the points (i, y_i): SUM of i * r_i = 0 over the residuals
\* r_i = y_i - slope*i - intercept, the intercept being mean(y) - slope*mean(i);
\* cleared of denominators.
SlopeSolvesNormalEquation(df, column, slope) ==
    LET n  == Len(df)
        y  == [i \in 1..n |-> df[i][column]]
        x  == [i \in 1..n |-> i - 1]
        p  == slope[1] * Scale
        q  == slope[2]
        Sx == Sum(x)
        Sy == Sum(y)
    IN  /\ q > 0
        /\ Sum([i \in 1..n |->
                  x[i] * (n * q * y[i] - n * p * x[i] - q * Sy + p * Sx)]) = 0

\* C7: on a history of fewer than 2 rows _calculate_trends returns, and
\* does not raise; what it returns is the mapping with the single key
\* "error", with no per-metric entry.
C7_InsufficientData ==
    (pc = "return" /\ op = "_calculate_trends" /\ Len(input) < 2) =>
        /\ exc = "None"
        /\ DOMAIN result = {"error"}

\* A one-row history with a metric in it has been answered with the marker.
C7_Witness ==
    /\ Returned("_calculate_trends")
    /\ Len(input) = 1
    /\ "heart_rate" \in DOMAIN input[1]
    /\ DOMAIN result = {"error"}

EntriesOf(list, name) == {i \in 1..Len(list) : list[i].factor = name}

C10_BloodPressureRiskFactor ==
    Returned("_identify_risk_factors") =>
        LET present == {"systolic", "diastolic"} \subseteq DOMAIN input
            category == FirstRow(input.systolic, input.diastolic)
            bps == EntriesOf(result, "Blood Pressure")
        IN  /\ (bps # {}) =
                   (present /\ category \in {"stage1", "stage2", "crisis"})
            /\ \A i \in bps :
                 /\ result[i].category = category
                 /\ result[i].priority \in {"high", "medium"}
                 /\ (result[i].priority = "high") =
                        (category \in {"stage2", "crisis"})
                 /\ result[i].category = "stage1" => result[i].priority = "medium"
                 /\ result[i].category = "stage2" => result[i].priority = "high"

\* A stage1 reading has been assessed: one entry, priority medium.
C10_Witness ==
    /\ Returned("_identify_risk_factors")
    /\ DOMAIN input = {"systolic", "diastolic"}
    /\ input.systolic = 135 * Scale
    /\ input.diastolic = 70 * Scale
    /\ Len(result) = 1
    /\ result[1].factor = "Blood Pressure"
    /\ result[1].category = "stage1"
    /\ result[1].priority = "medium"

\* C11: the list returned by _identify_risk_factors has at most two
\* entries, at most one for each factor name, and a BMI entry comes before
\* a Blood Pressure entry whenever both are emitted.
C11_EmissionOrder ==
    Returned("_identify_risk_factors") =>
        /\ Len(result) <= 2
        /\ Cardinality(EntriesOf(result, "BMI")) <= 1
        /\ Cardinality(EntriesOf(result, "Blood Pressure")) <= 1
        /\ \A i \in 1..Len(result) :
               result[i].factor \in {"BMI", "Blood Pressure"}
        /\ \A i \in EntriesOf(result, "BMI") :
               \A j \in EntriesOf(result, "Blood Pressure") : i < j

\* A snapshot at risk on both counts has been assessed: BMI, then Blood Pressure.
C11_Witness ==
    /\ Returned("_identify_risk_factors")
    /\ Len(result) = 2
    /\ result[1].factor = "BMI"
    /\ result[2].factor = "Blood Pressure"

\* The four operations of the classifier that take measurements.
ClassifierOps ==
    {"_analyze_blood_pressure", "_analyze_heart_rate", "_analyze_temperature",
     "_identify_risk_factors"}

\* C12: for every mapping whose present fields are numbers,
\* _identify_risk_factors and the three _analyze_* operations return a
\* result without raising an error.
C12_NoFailureModes ==
    (pc = "return" /\ op \in ClassifierOps) => exc = "None"

\* What holds instead: the three _analyze_* operations never raise, and
\* _identify_risk_factors raises exactly for a present height of 0 (with a
\* weight present).
RaisesOnlyOnZeroHeight ==
    (pc = "return" /\ op \in ClassifierOps) =>
        (exc # "None") =
            (/\ op = "_identify_risk_factors"
             /\ {"height", "weight"} \subseteq DOMAIN input
             /\ input.height = 0)

\* C19: for every input mapping the trends field of analyze_health_metrics
\* is the insufficient-data marker (the single key "error"), never a
\* per-metric entry: the history is built from exactly one snapshot.
C19_TrendsAlwaysMarker ==
    Returned("analyze_health_metrics") =>
        /\ DOMAIN result.trends = {"error"}
        /\ DOMAIN result = {"vital_signs", "trends", "risk_factors"}

\* A snapshot with every vital sign present has been analysed.
C19_Witness ==
    /\ Returned("analyze_health_metrics")
    /\ {"systolic", "diastolic", "heart_rate", "temperature"}
           \subseteq DOMAIN input
    /\ DOMAIN result.trends = {"error"}

\* C20: in every result of analyze_health_metrics, risk_factors holds a
\* Blood Pressure entry exactly when vital_signs.blood_pressure.category is
\* stage1, stage2 or crisis; the entry has that category, and priority high
\* exactly when vital_signs.blood_pressure.needs_attention is true.
C20_RiskMatchesVitalSigns ==
    Returned("analyze_health_metrics") =>
        LET bp  == result.vital_signs.blood_pressure
            bps == EntriesOf(result.risk_factors, "Blood Pressure")
        IN  /\ (bps # {}) = (bp.category \in {"stage1", "stage2", "crisis"})
            /\ \A i \in bps :
                 /\ result.risk_factors[i].category = bp.category
                 /\ (result.risk_factors[i].priority = "high")
                        = bp.needs_attention

\* What holds instead: the two agree when systolic and diastolic are both
\* present; with either absent there is no Blood Pressure entry, whatever
\* the vital sign says.
RiskMatchesVitalSignsWhenBothPresent ==
    Returned("analyze_health_metrics") =>
        LET bp  == result.vital_signs.blood_pressure
            bps == EntriesOf(result.risk_factors, "Blood Pressure")
        IN  IF {"systolic", "diastolic"} \subseteq DOMAIN input
            THEN (bps # {}) = (bp.category \in {"stage1", "stage2", "crisis"})
            ELSE bps = {}

\* What a call returns when it runs alone: <<error raised, value returned>>.
Alone(name, x) ==
    CASE name = "_analyze_blood_pressure" ->
             <<"None", _analyze_blood_pressure(x[1], x[2])>>
      [] name = "_analyze_heart_rate" -> <<"None", _analyze_heart_rate(x)>>
      [] name = "_analyze_temperature" -> <<"None", _analyze_temperature(x)>>
      [] name = "_identify_risk_factors" -> _identify_risk_factors(x)

\* C13: under any interleaving of calls by concurrent callers, each call
\* returns exactly what it returns when run alone on the same input (two
\* calls with the same input return the same output), and no call changes
\* its input mapping or the state of the HealthInsights object.
C13_PureUnderInterleaving ==
    /\ self = SelfInit
    /\ \A c \in DOMAIN calls :
         /\ calls[c].input = passed[c]
         /\ calls[c].pc = "return" =>
                <<calls[c].exc, calls[c].result>>
                    = Alone(calls[c].op, calls[c].input)
    /\ \A c, d \in DOMAIN calls :
         (/\ calls[c].pc = "return" /\ calls[d].pc = "return"
          /\ calls[c].op = calls[d].op
          /\ calls[c].input = calls[d].input) =>
             calls[c].result = calls[d].result

\* Two calls of _identify_risk_factors with different snapshots were both
\* between their first and last statement, and the first has returned a
\* non-empty list.
C13_Witness ==
    /\ DOMAIN calls # {}
    /\ calls[1].op = "_identify_risk_factors"
    /\ calls[2].op = "_identify_risk_factors"
    /\ calls[1].input # calls[2].input
    /\ calls[1].pc = "return"
    /\ calls[2].pc = "bp"
    /\ Len(calls[1].result) = 2

\* C14: after any sequence of register, login and logout requests every
\* stored User has role patient or doctor, so the else branch of the
\* dashboard route (the doctor dashboard) is taken only for a doctor.
C14_RolesAreDocumented ==
    db # <<>> =>
        /\ \A i \in 1..Len(db.users) : db.users[i].role \in {"patient", "doctor"}
        /\ (response.route = "dashboard"
            /\ response.status = "doctor_dashboard.html") =>
               CurrentRole = "doctor"

\* C15: a patient's medical_history changes only through an
\* add_medical_note request of a logged-in user whose role is doctor, with
\* a non-empty note; a request of a user of another role, of an
\* unauthenticated client, or with an empty note changes no history.
C15_OnlyDoctorsAddNotes ==
    [][db.patients' # db.patients =>
          /\ session # 0
          /\ db.users[session].role = "doctor"
          /\ response'.route = "add_medical_note"
          /\ response'.note \notin {<<>>, <<"">>}
          /\ db.users' = db.users]_vars

\* A logged-in doctor's note has just been entered in a patient's history.
C15_Witness ==
    /\ db # <<>>
    /\ db.patients[1].medical_history # <<>>
    /\ response.route = "add_medical_note"
    /\ session # 0
    /\ db.users[session].role = "doctor"

\* C16: a run of the launcher with --manage-models and --clear-cache
\* clears the cache of the model id given, or of all models if no id is
\* given, and start_server returns without starting a server.
C16_ClearCacheFromLauncher ==
    (/\ launch.pc = "exit"
     /\ launch.argv.manage_models
     /\ \/ Len(launch.argv.clear_cache) = 1
        \/ /\ Len(launch.argv.clear_cache) = 2
           /\ launch.argv.clear_cache[2] \in ModelIds) =>
        /\ launch.outcome = "returned"
        /\ ~launch.serving
        /\ IF Len(launch.argv.clear_cache) = 1
           THEN fs.paths = {} /\ downloaded_models = {}
           ELSE launch.argv.clear_cache[2] \notin fs.paths

\* What does hold of the launcher: with --manage-models and --clear-cache
\* MODEL_ID for a known model, start_server returns with that model's
\* path removed and no server started; no run reaches the branch of
\* clear_cache that removes the whole cache directory.
LauncherClearsOnlyOneModel ==
    /\ (/\ launch.pc = "exit"
        /\ launch.argv.manage_models
        /\ Len(launch.argv.clear_cache) = 2
        /\ launch.argv.clear_cache[2] \in ModelIds) =>
           /\ launch.outcome = "returned"
           /\ ~launch.serving
           /\ launch.argv.clear_cache[2] \notin fs.paths
           /\ launch.argv.clear_cache[2] \notin downloaded_models
    /\ Len(launch.argv.clear_cache) = 1 =>
           launch.pc \in {"parse_args", "exit"} /\ ~launch.serving
    /\ (launch.pc = "exit" /\ launch.outcome = "returned"
        /\ ~launch.argv.model_info) =>
           launch.clear_cache # <<>> /\ launch.clear_cache[1] \in ModelIds

\* C17 as stated: whenever download_all_required returns, every required
\* model is in downloaded_models and missing_required is empty, whatever
\* the outcome of the download attempts.
C17_AllRequiredDownloaded ==
    mcall.op = "download_all_required" =>
        /\ Required \subseteq downloaded_models
        /\ missing_required(downloaded_models) = <<>>

\* C17, amended: download_all_required always returns; it tries exactly
\* the required models not yet in downloaded_models, and afterwards the
\* required models missing from downloaded_models (the missing_required of
\* a following get_storage_info) are exactly those whose attempt failed.
C17_MissingAreFailedDownloads ==
    mcall.op = "download_all_required" =>
        /\ mcall.exc = "None"
        /\ DOMAIN mcall.attempts = Required \ mcall.prior.downloaded_models
        /\ Required \ downloaded_models
               = {m \in DOMAIN mcall.attempts : ~mcall.attempts[m].ok}
        /\ \A i \in 1..Len(ModelOrder) :
               (\E j \in 1..Len(missing_required(downloaded_models)) :
                    missing_required(downloaded_models)[j] = ModelOrder[i])
                   <=> (/\ ModelOrder[i] \in DOMAIN mcall.attempts
                        /\ ~mcall.attempts[ModelOrder[i]].ok)

\* download_all_required has returned after one attempt failed and
\* another succeeded.
C17_Witness ==
    /\ mcall.op = "download_all_required"
    /\ \E m, n \in DOMAIN mcall.attempts :
           mcall.attempts[m].ok /\ ~mcall.attempts[n].ok
    /\ missing_required(downloaded_models) # <<>>

\* C18: from every state reachable through the constructor,
\* download_model, download_all_required and clear_cache, clear_cache of a
\* known model_id does not raise and leaves model_id out of
\* downloaded_models; download_model and clear_cache of an unknown
\* model_id raise ValueError and change neither downloaded_models nor the
\* cache directory.
C18_ClearCacheForgetsModel ==
    /\ (mcall.op = "clear_cache" /\ mcall.arg # <<>>
        /\ mcall.arg[1] \in ModelIds) =>
           /\ mcall.exc = "None"
           /\ mcall.arg[1] \notin downloaded_models
    /\ (mcall.op \in {"clear_cache", "download_model"}
        /\ mcall.arg = <<"bogus">>) =>
           /\ mcall.exc = "ValueError"
           /\ fs = mcall.prior.fs
           /\ downloaded_models = mcall.prior.downloaded_models

\* What does hold of clear_cache and download_model: an unknown model_id
\* raises ValueError and changes nothing; clear_cache of a known model_id
\* leaves its path absent, and raises nothing but KeyError, exactly when
\* the path existed for a model not in downloaded_models.
UnknownModelRaises ==
    /\ (mcall.op \in {"clear_cache", "download_model"}
        /\ mcall.arg = <<"bogus">>) =>
           /\ mcall.exc = "ValueError"
           /\ fs = mcall.prior.fs
           /\ downloaded_models = mcall.prior.downloaded_models
    /\ (mcall.op = "clear_cache" /\ mcall.arg # <<>>
        /\ mcall.arg[1] \in ModelIds) =>
           /\ mcall.arg[1] \notin fs.paths
           /\ mcall.exc \in {"None", "KeyError"}
           /\ mcall.exc = "KeyError" <=>
                  /\ mcall.arg[1] \in mcall.prior.fs.paths
                  /\ mcall.arg[1] \notin mcall.prior.downloaded_models

====
